---------------------------- MODULE Spec2Model ----------------------------
(***************************************************************************)
(* The deck/draw state machine of the Card Drawer (card-drawer-vite,       *)
(* src/App.tsx): the React state of App (data, allowRepeats, drawn,        *)
(* remaining, selectedCategory, bulkLoading, bulkStatus), the per-card     *)
(* marker state of DrawnCard (pips), the FilePicker parses in flight, and  *)
(* the useEffect that repopulates the pool.                                *)
(*                                                                         *)
(* Scheduling.  Every handler runs to completion and its state updates are *)
(* committed as one render.  The useEffect of App runs after a render      *)
(* whose dependency array differs from the one of the previous render; the *)
(* model runs it before the next handler (React flushes the effects of a   *)
(* render before it handles the next event).  effectDeps holds the         *)
(* dependency array the effect last ran with.                              *)
(*                                                                         *)
(* Indices are 0-based as in the source; the row of index i of a table t   *)
(* is t[i + 1].                                                            *)
(***************************************************************************)
EXTENDS Integers, Sequences, FiniteSets, TLC

\* ------------------------------------------------------------- bounds ---
\* rows of an uploaded file
MaxRows == 2
\* cards kept in the history
MaxHist == 1
\* successful no-repeat draws followed since the last reset of the pool
MaxRun == MaxRows + 1

\* ---------------------------------------------------------- constants ---
CATEGORY_ORDER == <<"characters", "items", "locations", "quests">>

Categories == {CATEGORY_ORDER[i] : i \in 1..Len(CATEGORY_ORDER)}

\* The ceiling of Math.min(10, n + 1) in addPip.
MaxPips == 10

\* ------------------------------------------------------------- inputs ---
\* What Papa.parse hands to `complete` for the file f of n rows: the row i of
\* the file is <<f, i>>.
RowsOf(f, n) == [i \in 1..n |-> <<f, i>>]

\* The categories whose FilePicker is used by the main specification.
PickerCats == {"characters", "items"}

\* Math.random().toString(36).slice(2, 8): a short base-36 string.
RandSuffixes == {"k3x9qa", "0zt4mw"}

\* Date.now(), in ms.
Times == 0..1

VARIABLES
    data,              \* DataBundle: category -> rows
    allowRepeats,
    drawn,             \* Drawn[], most recent first
    remaining,         \* number[]: the indices not drawn yet
    selectedCategory,
    bulkLoading,
    bulkFiles,         \* `files` of the handleBulkUpload in flight: the names picked
    bulkStatus,
    loading,           \* the categories whose FilePicker has a parse in flight
    pips,              \* pips[i]: the marker count of the DrawnCard of drawn[i]
    effectDeps,        \* the dependency array the useEffect last ran with
    now,               \* Date.now()
    lastOp,            \* the last handler that ran, with its arguments
    run                \* where run.on: the no-repeat draws since the pool was last reset
                       \* by a load, a category switch or a reshuffle (the indices
                       \* seen, and how many draws); MaxRun of them are followed

vars == <<data, allowRepeats, drawn, remaining, selectedCategory, bulkLoading,
          bulkFiles, bulkStatus, loading, pips, effectDeps, now, lastOp, run>>

\* ------------------------------------------------------------ helpers ---
\* The last handler and what it was given: the category and rows of a load, the
\* outcomes of the parses of a bulk upload (files), the id of a dismiss, the
\* position of a card (1 is the newest; for a draw, 1 when
\* a card was made and 0 when not) and its marker count before the handler ran.
Op(name) ==
    [op |-> name, key |-> "", rows |-> <<>>, id |-> <<>>, pos |-> 0, was |-> 0,
     files |-> <<>>]

\* the run with no draw in it
NoRun == [run EXCEPT !.seen = {}, !.count = 0]

\* Array.from({ length: n }, (_, i) => i)
IndexRange(n) == [i \in 1..n |-> i - 1]

\* arr.splice(k, 1) on a copy, k 0-based
Splice(arr, k) == [i \in 1..(Len(arr) - 1) |-> IF i <= k THEN arr[i] ELSE arr[i + 1]]

minLen == Len(data[selectedCategory])

allLoaded == minLen > 0

\* A dependency array that leaves out remaining.length.
DepsWithoutLength == <<allLoaded, minLen, 0>>

Deps == <<allLoaded, minLen, Len(remaining)>>

\* No effect is pending: the last render's dependencies are those the effect ran with.
Settled == effectDeps = Deps

\* ------------------------------------------------------------ strings ---
\* A string is the sequence of its characters.
UpperCase == <<"A", "B", "C", "D", "E", "F", "G", "H", "I", "J", "K", "L", "M",
               "N", "O", "P", "Q", "R", "S", "T", "U", "V", "W", "X", "Y", "Z">>

LowerCase == <<"a", "b", "c", "d", "e", "f", "g", "h", "i", "j", "k", "l", "m",
               "n", "o", "p", "q", "r", "s", "t", "u", "v", "w", "x", "y", "z">>

LowerChar(ch) ==
    IF \E i \in 1..Len(UpperCase) : UpperCase[i] = ch
    THEN LowerCase[CHOOSE i \in 1..Len(UpperCase) : UpperCase[i] = ch]
    ELSE ch

\* String.prototype.toLowerCase
ToLowerCase(str) == [i \in 1..Len(str) |-> LowerChar(str[i])]

\* String.prototype.includes
Includes(str, token) ==
    \E i \in 0..(Len(str) - Len(token)) : SubSeq(str, i + 1, i + Len(token)) = token

\* String.prototype.endsWith
EndsWith(str, tail) ==
    /\ Len(tail) <= Len(str)
    /\ SubSeq(str, Len(str) - Len(tail) + 1, Len(str)) = tail

CATEGORY_MATCHES ==
    [c \in Categories |->
        CASE c = "characters" ->
                <<<<"c", "h", "a", "r", "a", "c", "t", "e", "r", "s">>,
                  <<"c", "h", "a", "r", "a", "c", "t", "e", "r">>>>
          [] c = "items" ->
                <<<<"i", "t", "e", "m", "s">>, <<"i", "t", "e", "m">>>>
          [] c = "locations" ->
                <<<<"l", "o", "c", "a", "t", "i", "o", "n", "s">>,
                  <<"l", "o", "c", "a", "t", "i", "o", "n">>>>
          [] c = "quests" ->
                <<<<"q", "u", "e", "s", "t", "s">>, <<"q", "u", "e", "s", "t">>>>]

\* getCategoryLabel
CategoryLabel(category) ==
    CASE category = "characters" -> "Characters"
      [] category = "items" -> "Items"
      [] category = "locations" -> "Locations"
      [] category = "quests" -> "Quests"

\* detectCategoryFromFilename; "null" when no category matches
detectCategoryFromFilename(name) ==
    LET lower == ToLowerCase(name)
        hits == {i \in 1..Len(CATEGORY_ORDER) :
                    \E j \in 1..Len(CATEGORY_MATCHES[CATEGORY_ORDER[i]]) :
                        Includes(lower, CATEGORY_MATCHES[CATEGORY_ORDER[i]][j])}
    IN  IF hits = {} THEN "null"
        ELSE CATEGORY_ORDER[CHOOSE i \in hits : \A j \in hits : i <= j]


\* The id template `${index}-${Date.now()}-${suffix}`: the three parts, which
\* the "-" separators keep apart.
CardId(index, t, suffix) == <<index, t, suffix>>

\* d.filter((c) => c.id !== removeId), as the positions kept
KeptPositions(d, removeId) == {i \in 1..Len(d) : d[i].id # removeId}

RECURSIVE FilterAt(_, _, _)
\* the entries of s at the positions of keep, in order, from position i on
FilterAt(s, keep, i) ==
    IF i > Len(s) THEN <<>>
    ELSE IF i \in keep THEN <<s[i]>> \o FilterAt(s, keep, i + 1)
    ELSE FilterAt(s, keep, i + 1)

Min(a, b) == IF a <= b THEN a ELSE b

\* --------------------------------------------------------------- Init ---
NoStatus == [assignments |-> <<>>, skipped |-> <<>>, failures |-> <<>>, text |-> "null"]

\* the state of a page just opened; follow: whether the runs of draws are followed
StartState(follow) ==
    /\ data = [c \in Categories |-> <<>>]
    /\ allowRepeats = FALSE
    /\ drawn = <<>>
    /\ remaining = <<>>
    /\ selectedCategory = "characters"
    /\ bulkLoading = FALSE
    /\ bulkFiles = <<>>
    /\ bulkStatus = NoStatus
    /\ loading = {}
    /\ pips = <<>>
    /\ effectDeps = <<FALSE, 0, 0>>
    /\ now = 0
    /\ lastOp = Op("init")
    /\ run = [on |-> follow, seen |-> {}, count |-> 0]

Init == StartState(FALSE)

InitFollowed == StartState(TRUE)

\* ------------------------------------------------------------ actions ---
\* useEffect(() => { if (allLoaded && remaining.length === 0) setRemaining(...) },
\*           [allLoaded, minLen, remaining.length])
Effect ==
    /\ ~Settled
    /\ effectDeps' = Deps
    /\ remaining' = IF allLoaded /\ Len(remaining) = 0
                    THEN IndexRange(minLen)
                    ELSE remaining
    /\ UNCHANGED <<data, allowRepeats, drawn, selectedCategory, bulkLoading, bulkFiles,
                   bulkStatus, loading, pips, now, lastOp, run>>

\* A selectCategory that keeps the pool of the category left.
SelectCategoryKeepPool(category) ==
    /\ Settled
    /\ selectedCategory' = category
    /\ run' = NoRun
    /\ lastOp' = Op("selectCategory")
    /\ UNCHANGED <<data, allowRepeats, drawn, remaining, bulkLoading, bulkFiles, bulkStatus,
                   loading, pips, effectDeps, now>>

\* selectCategory
SelectCategory(category) ==
    /\ Settled
    /\ selectedCategory' = category
    /\ remaining' = <<>>
    /\ run' = NoRun
    /\ lastOp' = Op("selectCategory")
    /\ UNCHANGED <<data, allowRepeats, drawn, bulkLoading, bulkFiles, bulkStatus, loading,
                   pips, effectDeps, now>>

\* A handleLoad that keeps the pool.
HandleLoadKeepPool(key, rows) ==
    /\ data' = [data EXCEPT ![key] = rows]
    /\ drawn' = <<>>
    /\ pips' = <<>>
    /\ run' = NoRun
    /\ lastOp' = [Op("handleLoad") EXCEPT !.key = key, !.rows = rows]
    /\ UNCHANGED remaining

\* A handleLoad that clears the pool and the history only for the selected category.
HandleLoadIfSelected(key, rows) ==
    /\ data' = [data EXCEPT ![key] = rows]
    /\ lastOp' = [Op("handleLoad") EXCEPT !.key = key, !.rows = rows]
    /\ IF key = selectedCategory
       THEN /\ remaining' = <<>>
            /\ drawn' = <<>>
            /\ pips' = <<>>
            /\ run' = NoRun
       ELSE UNCHANGED <<remaining, drawn, pips, run>>

\* handleLoad(key)(rows): the three state updates of one callback
HandleLoad(key, rows) ==
    /\ data' = [data EXCEPT ![key] = rows]
    /\ remaining' = <<>>
    /\ drawn' = <<>>
    /\ pips' = <<>>
    /\ run' = NoRun
    /\ lastOp' = [Op("handleLoad") EXCEPT !.key = key, !.rows = rows]

\* FilePicker.handleFile: the parse is dispatched
HandleFile(key) ==
    /\ Settled
    /\ key \notin loading
    /\ loading' = loading \cup {key}
    /\ UNCHANGED <<data, allowRepeats, drawn, remaining, selectedCategory,
                   bulkLoading, bulkFiles, bulkStatus, pips, effectDeps, now, lastOp, run>>

\* Papa.parse's `complete` of the FilePicker of key: onFile(rows); setLoading(false).
\* The rows are those of the file picked, which no engine state decides.
ParseComplete(key, rows) ==
    /\ Settled
    /\ key \in loading
    /\ HandleLoad(key, rows)
    /\ loading' = loading \ {key}
    /\ UNCHANGED <<allowRepeats, selectedCategory, bulkLoading, bulkFiles, bulkStatus,
                   effectDeps, now>>

\* Papa.parse's `error` of the FilePicker of key: setLoading(false)
ParseError(key) ==
    /\ Settled
    /\ key \in loading
    /\ loading' = loading \ {key}
    /\ lastOp' = Op("parseError")
    /\ UNCHANGED <<data, allowRepeats, drawn, remaining, selectedCategory,
                   bulkLoading, bulkFiles, bulkStatus, pips, effectDeps, now, run>>

\* ------------------------------------------------------- bulk upload ---
\* file names
NameMonsters == <<"m", "o", "n", "s", "t", "e", "r", "s", ".", "c", "s", "v">>

NameItemsV2 == <<"I", "t", "e", "m", "s", "_", "v", "2", ".", "C", "S", "V">>

NameRandom == <<"r", "a", "n", "d", "o", "m", ".", "c", "s", "v">>

NameCharacterSheet ==
    <<"c", "h", "a", "r", "a", "c", "t", "e", "r", "_", "s", "h", "e", "e", "t",
      ".", "c", "s", "v">>

NameItem == <<"i", "t", "e", "m", ".", "c", "s", "v">>

NameLocations == <<"L", "O", "C", "A", "T", "I", "O", "N", "S", ".", "c", "s", "v">>

\* a name with the tokens of two categories
NameQuestItems ==
    <<"q", "u", "e", "s", "t", "_", "i", "t", "e", "m", "s", ".", "c", "s", "v">>

NameHeroes == <<"h", "e", "r", "o", "e", "s", ".", "c", "s", "v">>

NameMaps == <<"m", "a", "p", "s", ".", "c", "s", "v">>

NameLoot == <<"l", "o", "o", "t", ".", "c", "s", "v">>

\* not a .csv
NameQuestsTxt == <<"q", "u", "e", "s", "t", "s", ".", "t", "x", "t">>

FileNames ==
    {NameMonsters, NameItemsV2, NameRandom, NameCharacterSheet, NameItem,
     NameLocations, NameQuestItems, NameHeroes, NameMaps, NameLoot,
     NameQuestsTxt}

\* detectCategoryFromFilename on the names in use, computed once
DetectedCategory == [name \in FileNames |-> detectCategoryFromFilename(name)]

\* One entry of `parsed`: the file's name and its rows, or ok = FALSE (rows: null)
\* when parseCsvFile rejected.
Parsed(name, rows) == [name |-> name, ok |-> TRUE, rows |-> rows]

Failed(name) == [name |-> name, ok |-> FALSE, rows |-> <<>>]

\* `${file.name} -> ${label}${note}`
Assignment(name, category, note) ==
    [file |-> name, label |-> CategoryLabel(category), note |-> note]

\* newData is kept as the set of its keys (which is also `assigned`) and its rows.
EmptyBulk ==
    [assigned |-> {}, rows |-> [c \in Categories |-> <<>>],
     counts |-> [c \in Categories |-> 0],
     assignments |-> <<>>, failures |-> <<>>, skipped |-> <<>>, unmatched |-> <<>>]

\* A body of parsed.forEach without the test of `rows`: a file whose parse failed
\* is assigned like the others, with no rows.
AssignDetectedUnchecked(acc, file) ==
    LET detected == DetectedCategory[file.name]
    IN  IF detected # "null"
        THEN [acc EXCEPT
                !.rows[detected] = file.rows,
                !.assigned = @ \cup {detected},
                !.counts[detected] = @ + 1,
                !.assignments =
                    Append(@, Assignment(file.name, detected,
                                         IF acc.counts[detected] > 0
                                         THEN " (overrides previous)" ELSE ""))]
        ELSE [acc EXCEPT !.unmatched = Append(@, file)]

\* the body of parsed.forEach for one file
AssignDetected(acc, file) ==
    LET detected == DetectedCategory[file.name]
    IN  IF ~file.ok
        THEN [acc EXCEPT !.failures = Append(@, file.name)]
        ELSE IF detected # "null"
        THEN [acc EXCEPT
                !.rows[detected] = file.rows,
                !.assigned = @ \cup {detected},
                !.counts[detected] = @ + 1,
                !.assignments =
                    Append(@, Assignment(file.name, detected,
                                         IF acc.counts[detected] > 0
                                         THEN " (overrides previous)" ELSE ""))]
        ELSE [acc EXCEPT !.unmatched = Append(@, file)]

RECURSIVE AssignAll(_, _, _)
\* parsed.forEach(...), from file i on
AssignAll(parsed, i, acc) ==
    IF i > Len(parsed) THEN acc
    ELSE AssignAll(parsed, i + 1, AssignDetected(acc, parsed[i]))

\* A fallback queue of every category, assigned or not.
FallbackQueueAll(assigned) == CATEGORY_ORDER

\* CATEGORY_ORDER.filter((category) => !assigned.has(category))
FallbackQueue(assigned) ==
    SelectSeq(CATEGORY_ORDER, LAMBDA category : category \notin assigned)

RECURSIVE AssignFallback(_, _, _, _)
\* unmatched.forEach(...), from file i on, with what is left of fallbackQueue
AssignFallback(unmatched, i, queue, acc) ==
    IF i > Len(unmatched) THEN acc
    ELSE IF Len(queue) = 0
    THEN AssignFallback(unmatched, i + 1, queue,
                        [acc EXCEPT !.skipped = Append(@, unmatched[i].name)])
    ELSE AssignFallback(unmatched, i + 1, Tail(queue),
                        [acc EXCEPT
                            !.rows[Head(queue)] = unmatched[i].rows,
                            !.assigned = @ \cup {Head(queue)},
                            !.assignments =
                                Append(@, Assignment(unmatched[i].name, Head(queue),
                                                     " (default)"))])

\* the assignment of a bulk upload: lines 304 to 342
BulkAssign(parsed) ==
    LET first == AssignAll(parsed, 1, EmptyBulk)
    IN  AssignFallback(first.unmatched, 1, FallbackQueue(first.assigned), first)

\* statusParts.join(" | ") || "No files were processed."
BulkStatusOf(r) ==
    [assignments |-> r.assignments, skipped |-> r.skipped, failures |-> r.failures,
     text |-> IF Len(r.assignments) = 0 /\ Len(r.skipped) = 0 /\ Len(r.failures) = 0
              THEN "No files were processed."
              ELSE "parts"]

NoCsvStatus ==
    [assignments |-> <<>>, skipped |-> <<>>, failures |-> <<>>,
     text |-> "No CSV files selected."]

DotCsv == <<".", "c", "s", "v">>

\* Array.from(fileList).filter((file) => file.name.toLowerCase().endsWith(".csv"))
CsvFiles(names) == SelectSeq(names, LAMBDA name : EndsWith(ToLowerCase(name), DotCsv))

\* handleBulkUpload up to its await: the files are handed to the parser
HandleBulkUpload(names) ==
    /\ Settled
    /\ ~bulkLoading
    /\ IF Len(names) = 0
       THEN UNCHANGED <<bulkLoading, bulkFiles, bulkStatus>>
       ELSE IF Len(CsvFiles(names)) = 0
       THEN /\ bulkStatus' = NoCsvStatus
            /\ UNCHANGED <<bulkLoading, bulkFiles>>
       ELSE /\ bulkLoading' = TRUE
            /\ bulkFiles' = CsvFiles(names)
            /\ bulkStatus' = NoStatus
    /\ UNCHANGED <<data, allowRepeats, drawn, remaining, selectedCategory, loading,
                   pips, effectDeps, now, lastOp, run>>

\* A bulk upload that applies its tables and keeps the history.
BulkCompleteKeepHistory(parsed) ==
    /\ Settled
    /\ bulkLoading
    /\ Len(parsed) = Len(bulkFiles)
    /\ \A i \in 1..Len(parsed) : parsed[i].name = bulkFiles[i]
    /\ LET r == BulkAssign(parsed)
       IN  /\ IF r.assigned # {}
              THEN /\ data' = [c \in Categories |->
                                  IF c \in r.assigned THEN r.rows[c] ELSE data[c]]
                   /\ remaining' = <<>>
                   /\ run' = NoRun
              ELSE UNCHANGED <<data, remaining, run>>
           /\ bulkStatus' = BulkStatusOf(r)
    /\ bulkLoading' = FALSE
    /\ bulkFiles' = <<>>
    /\ lastOp' = [Op("handleBulkUpload") EXCEPT !.files = parsed]
    /\ UNCHANGED <<allowRepeats, drawn, pips, selectedCategory, loading, effectDeps, now>>

\* handleBulkUpload after its await: every parse has ended, `parsed` holds the
\* outcome of each of `files`, in their order.  What a parse gives is the file's
\* content, which no engine state decides.
BulkComplete(parsed) ==
    /\ Settled
    /\ bulkLoading
    /\ Len(parsed) = Len(bulkFiles)
    /\ \A i \in 1..Len(parsed) : parsed[i].name = bulkFiles[i]
    /\ LET r == BulkAssign(parsed)
       IN  /\ IF r.assigned # {}
              THEN /\ data' = [c \in Categories |->
                                  IF c \in r.assigned THEN r.rows[c] ELSE data[c]]
                   /\ remaining' = <<>>
                   /\ drawn' = <<>>
                   /\ pips' = <<>>
                   /\ run' = NoRun
              ELSE UNCHANGED <<data, remaining, drawn, pips, run>>
           /\ bulkStatus' = BulkStatusOf(r)
    /\ bulkLoading' = FALSE
    /\ bulkFiles' = <<>>
    /\ lastOp' = [Op("handleBulkUpload") EXCEPT !.files = parsed]
    /\ UNCHANGED <<allowRepeats, selectedCategory, loading, effectDeps, now>>


\* The card of one draw
NewCard(index, suffix) ==
    [id |-> CardId(index, now, suffix), index |-> index,
     row |-> data[selectedCategory][index + 1], category |-> selectedCategory]

\* drawOne; k is Math.floor(Math.random() * n), suffix the random part of the id
DrawOne(k, suffix) ==
    /\ Settled
    /\ IF ~allLoaded \/ minLen = 0
       THEN /\ k = 0
            /\ lastOp' = Op("drawOne")
            /\ UNCHANGED <<drawn, pips, remaining, run>>
       ELSE IF allowRepeats
       THEN /\ k < minLen
            /\ drawn' = <<NewCard(k, suffix)>> \o drawn
            /\ pips' = <<0>> \o pips
            /\ run' = NoRun
            /\ lastOp' = [Op("drawOne") EXCEPT !.pos = 1]
            /\ UNCHANGED remaining
       ELSE IF Len(remaining) = 0
       THEN /\ k = 0
            /\ lastOp' = Op("drawOne")
            /\ UNCHANGED <<drawn, pips, remaining, run>>
       ELSE /\ k < Len(remaining)
            /\ run.on => run.count < MaxRun
            /\ remaining' = Splice(remaining, k)
            /\ drawn' = <<NewCard(remaining[k + 1], suffix)>> \o drawn
            /\ pips' = <<0>> \o pips
            /\ run' = IF run.on
                      THEN [run EXCEPT !.seen = @ \cup {remaining[k + 1]},
                                       !.count = @ + 1]
                      ELSE run
            /\ lastOp' = [Op("drawOne") EXCEPT !.pos = 1]
    /\ UNCHANGED <<data, allowRepeats, selectedCategory, bulkLoading, bulkFiles, bulkStatus,
                   loading, effectDeps, now>>

\* reshuffle
Reshuffle ==
    /\ Settled
    /\ lastOp' = Op("reshuffle")
    /\ IF ~allLoaded
       THEN UNCHANGED <<remaining, run>>
       ELSE /\ remaining' = IndexRange(minLen)
            /\ run' = NoRun
    /\ UNCHANGED <<data, allowRepeats, drawn, selectedCategory, bulkLoading, bulkFiles,
                   bulkStatus, loading, pips, effectDeps, now>>

\* A clearAllCards that resets the pool too.
ClearAllCardsAndPool ==
    /\ Settled
    /\ drawn' = <<>>
    /\ pips' = <<>>
    /\ remaining' = <<>>
    /\ lastOp' = Op("clearAllCards")
    /\ UNCHANGED <<data, allowRepeats, selectedCategory, bulkLoading, bulkFiles, bulkStatus,
                   loading, effectDeps, now, run>>

\* clearAllCards
ClearAllCards ==
    /\ Settled
    /\ drawn' = <<>>
    /\ pips' = <<>>
    /\ lastOp' = Op("clearAllCards")
    /\ UNCHANGED <<data, allowRepeats, remaining, selectedCategory, bulkLoading, bulkFiles,
                   bulkStatus, loading, effectDeps, now, run>>

\* <Switch checked={allowRepeats} onCheckedChange={setAllowRepeats} />:
\* the switch calls onCheckedChange(!checked)
SetAllowRepeats ==
    /\ Settled
    /\ allowRepeats' = ~allowRepeats
    /\ lastOp' = Op("setAllowRepeats")
    /\ UNCHANGED <<data, drawn, remaining, selectedCategory, bulkLoading, bulkFiles,
                   bulkStatus, loading, pips, effectDeps, now, run>>

\* onDismiss: setDrawn((d) => d.filter((c) => c.id !== removeId)); the DrawnCard
\* of an entry that goes unmounts, and its pips with it
Dismiss(removeId) ==
    /\ Settled
    /\ drawn' = FilterAt(drawn, KeptPositions(drawn, removeId), 1)
    /\ pips' = FilterAt(pips, KeptPositions(drawn, removeId), 1)
    /\ lastOp' = [Op("dismiss") EXCEPT !.id = removeId]
    /\ UNCHANGED <<data, allowRepeats, remaining, selectedCategory, bulkLoading, bulkFiles,
                   bulkStatus, loading, effectDeps, now, run>>

\* An addPip without the ceiling.
AddPipNoCap(i) ==
    /\ Settled
    /\ i \in 1..Len(drawn)
    /\ pips' = [pips EXCEPT ![i] = pips[i] + 1]
    /\ lastOp' = [Op("addPip") EXCEPT !.pos = i, !.was = pips[i]]
    /\ UNCHANGED <<data, allowRepeats, drawn, remaining, selectedCategory,
                   bulkLoading, bulkFiles, bulkStatus, loading, effectDeps, now, run>>

\* addPip of the DrawnCard at position i
AddPip(i) ==
    /\ Settled
    /\ i \in 1..Len(drawn)
    /\ pips' = [pips EXCEPT ![i] = Min(MaxPips, pips[i] + 1)]
    /\ lastOp' = [Op("addPip") EXCEPT !.pos = i, !.was = pips[i]]
    /\ UNCHANGED <<data, allowRepeats, drawn, remaining, selectedCategory,
                   bulkLoading, bulkFiles, bulkStatus, loading, effectDeps, now, run>>

\* clearPips of the DrawnCard at position i
ClearPips(i) ==
    /\ Settled
    /\ i \in 1..Len(drawn)
    /\ pips' = [pips EXCEPT ![i] = 0]
    /\ lastOp' = [Op("clearPips") EXCEPT !.pos = i, !.was = pips[i]]
    /\ UNCHANGED <<data, allowRepeats, drawn, remaining, selectedCategory,
                   bulkLoading, bulkFiles, bulkStatus, loading, effectDeps, now, run>>

\* a millisecond passes
Tick ==
    /\ now + 1 \in Times
    /\ now' = now + 1
    /\ UNCHANGED <<data, allowRepeats, drawn, remaining, selectedCategory,
                   bulkLoading, bulkFiles, bulkStatus, loading, pips, effectDeps, lastOp, run>>

\* the ids a dismiss can be given: those on screen
DismissIds == {drawn[i].id : i \in 1..Len(drawn)}

\* The rows and the id suffixes of the main specification: an empty file, a file
\* of one row and a file of MaxRows rows, and one suffix (SpecIds follows the ids).
DeckRows == {RowsOf("f1", n) : n \in {0, 1, MaxRows}}

DeckSuffixes == {"k3x9qa"}

\* The bulk upload of the main specification: one file for "items" by its name, one
\* that falls back to the first free category, one that fails to parse.
DeckBulkNames == {<<NameMonsters, NameItemsV2, NameRandom>>}

DeckBulkParsed ==
    {<<Parsed(NameMonsters, RowsOf("f1", MaxRows)), Parsed(NameItemsV2, RowsOf("f1", 1)),
       Failed(NameRandom)>>}

Next ==
    \/ Effect
    \/ \E c \in Categories : SelectCategory(c)
    \/ \E c \in PickerCats : HandleFile(c)
    \/ \E c \in PickerCats, rows \in DeckRows : ParseComplete(c, rows)
    \/ \E c \in PickerCats : ParseError(c)
    \/ \E names \in DeckBulkNames : HandleBulkUpload(names)
    \/ \E parsed \in DeckBulkParsed : BulkComplete(parsed)
    \/ \E k \in 0..(MaxRows - 1), suffix \in DeckSuffixes :
            Len(drawn) < MaxHist /\ DrawOne(k, suffix)
    \/ Reshuffle
    \/ ClearAllCards
    \/ SetAllowRepeats
    \/ \E id \in DismissIds : Dismiss(id)

Spec == Init /\ [][Next]_vars

\* the same, with the runs of draws followed
SpecRun == InitFollowed /\ [][Next]_vars

\* ------------------------------------------------- the ids of the cards ---
\* cards kept in the history where the ids are followed
MaxIdHist == 3

\* an id no card has: a draw of index 0 at a time before the page was opened
AbsentId == CardId(0, 0 - 1, "k3x9qa")

IdRows == {RowsOf("f1", MaxRows)}

NextIds ==
    \/ Effect
    \/ HandleFile("characters")
    \/ \E rows \in IdRows : ParseComplete("characters", rows)
    \/ \E k \in 0..(MaxRows - 1), suffix \in RandSuffixes :
            Len(drawn) < MaxIdHist /\ DrawOne(k, suffix)
    \/ SetAllowRepeats
    \/ \E id \in DismissIds \cup {AbsentId} : Dismiss(id)
    \/ Tick

SpecIds == Init /\ [][NextIds]_vars

\* ------------------------------------------------------- the markers ---
\* cards kept in the history where the markers are followed
MaxMarked == 2

MarkerRows == {RowsOf("f1", 1)}

NextMarkers ==
    \/ Effect
    \/ HandleFile("characters")
    \/ \E rows \in MarkerRows : ParseComplete("characters", rows)
    \/ \E suffix \in RandSuffixes : Len(drawn) < MaxMarked /\ DrawOne(0, suffix)
    \/ \E i \in 1..MaxMarked : AddPip(i)
    \/ \E i \in 1..MaxMarked : ClearPips(i)
    \/ \E id \in DismissIds : Dismiss(id)

SpecMarkers == Init /\ [][NextMarkers]_vars

\* ----------------------------------------------------- the bulk uploads ---
\* The file lists picked: the list of three files with one named for "items"; a
\* file of no category ahead of named ones, two of them for "items"; a name with
\* the tokens of two categories, and a file that is not a .csv; five files of no
\* category; files named for three categories, two of them for "items", between
\* two files of no category; a list with no .csv; and no file.
BulkNames ==
    {<<NameMonsters, NameItemsV2, NameRandom>>,
     <<NameRandom, NameCharacterSheet, NameItem, NameItemsV2>>,
     <<NameQuestItems, NameLocations, NameQuestsTxt>>,
     <<NameMonsters, NameRandom, NameHeroes, NameMaps, NameLoot>>,
     <<NameHeroes, NameQuestItems, NameItem, NameCharacterSheet, NameLocations,
       NameMaps>>,
     <<NameQuestsTxt>>,
     <<>>}

\* The rows of each file: monsters.csv has MaxRows rows, random.csv has a header
\* and no row, the others one row.
BulkRows ==
    [name \in FileNames |->
        RowsOf(name, IF name = NameMonsters THEN MaxRows
                     ELSE IF name = NameRandom THEN 0 ELSE 1)]

\* `parsed` for the files `names` when the parses of the positions in ok resolve
\* and the others reject
Outcome(names, ok) ==
    [i \in 1..Len(names) |->
        IF i \in ok THEN Parsed(names[i], BulkRows[names[i]]) ELSE Failed(names[i])]

\* the file picked in the FilePicker of "characters", and its rows
NameSheet == <<"s", "h", "e", "e", "t", ".", "c", "s", "v">>

BulkPickedRows == {RowsOf(NameSheet, MaxRows)}

\* The bulk upload followed is the first of the page: no bulk status is shown yet.
NextBulk ==
    \/ Effect
    \/ \E c \in Categories : SelectCategory(c)
    \/ HandleFile("characters")
    \/ \E rows \in BulkPickedRows : ParseComplete("characters", rows)
    \/ ParseError("characters")
    \/ \E names \in BulkNames : bulkStatus = NoStatus /\ HandleBulkUpload(names)
    \/ \E ok \in SUBSET (1..Len(bulkFiles)) : BulkComplete(Outcome(bulkFiles, ok))
    \/ \E k \in 0..(MaxRows - 1), suffix \in DeckSuffixes :
            Len(drawn) < MaxHist /\ DrawOne(k, suffix)

SpecBulk == Init /\ [][NextBulk]_vars

\* ------------------------------------------ the cards of the history ---
\* cards kept in the history where the cards are followed
MaxCards == 2

\* the file picked in the FilePickers
CardRows == {RowsOf("f2", MaxRows)}

\* The first card of a history is given a marker while alone.
NextCards ==
    \/ Effect
    \/ \E c \in PickerCats : SelectCategory(c)
    \/ \E c \in PickerCats : HandleFile(c)
    \/ \E c \in PickerCats, rows \in CardRows : ParseComplete(c, rows)
    \/ \E names \in DeckBulkNames : HandleBulkUpload(names)
    \/ \E parsed \in DeckBulkParsed : BulkComplete(parsed)
    \/ \E k \in 0..(MaxRows - 1), suffix \in DeckSuffixes :
            Len(drawn) < MaxCards /\ DrawOne(k, suffix)
    \/ SetAllowRepeats
    \/ Len(drawn) = 1 /\ pips[1] = 0 /\ AddPip(1)

SpecCards == Init /\ [][NextCards]_vars

\* ============================================================== claims ===

\* C1 (as stated): the indices of the no-repeat draws made since the pool was last
\* reset by a load, a category switch or a reshuffle are pairwise distinct.
C1_DrawsDistinct == run.count = Cardinality(run.seen)

\* C2 (as stated): a draw changes neither the history nor the pool when the
\* selected table is empty, or when allowRepeats is off and as many draws as the
\* table has rows were made since the pool was last reset.
C2_DrawRefused ==
    [][(/\ Settled
        /\ lastOp'.op = "drawOne"
        /\ minLen = 0 \/ (~allowRepeats /\ run.count >= minLen))
       => (drawn' = drawn /\ remaining' = remaining)]_vars

\* C3: once the effect has run, a non-empty selected table has a non-empty pool;
\* and the step that follows a render with an empty pool over a non-empty table
\* sets the pool to the full index range of the table.
C3_PoolReady ==
    /\ []((Settled /\ minLen > 0) => Len(remaining) > 0)
    /\ [][(~Settled /\ minLen > 0 /\ Len(remaining) = 0)
            => remaining' = IndexRange(minLen)]_vars

\* a no-repeat draw took the last index of a table of MaxRows rows, and the pool
\* is full again
C3_Witness ==
    /\ Settled
    /\ lastOp.op = "drawOne" /\ lastOp.pos = 1
    /\ ~allowRepeats
    /\ minLen = MaxRows
    /\ remaining = IndexRange(minLen)

\* C4: in every state the pool holds no index twice and only indices of the
\* selected table.
C4_PoolInRange ==
    /\ \A i \in 1..Len(remaining) : remaining[i] \in 0..(minLen - 1)
    /\ \A i, j \in 1..Len(remaining) : i # j => remaining[i] # remaining[j]

\* the selected table was just reloaded with fewer rows than it had, and than the
\* pool had indices (effectDeps still holds the lengths of the render before)
C4_Witness ==
    /\ lastOp.op = "handleLoad" /\ lastOp.key = selectedCategory
    /\ minLen > 0
    /\ effectDeps[2] > minLen
    /\ effectDeps[3] > minLen

\* C5: the step that applies a completed parse of the FilePicker of c sets
\* tables[c] to the rows parsed, leaves every other table as it was, and empties
\* the history and the pool, whatever the selected category.
C5_LoadApplied ==
    [][(/\ lastOp'.op = "handleLoad"
        /\ lastOp'.key \in loading
        /\ lastOp'.key \notin loading')
       => (/\ data'[lastOp'.key] = lastOp'.rows
           /\ \A c \in Categories \ {lastOp'.key} : data'[c] = data[c]
           /\ drawn' = <<>>
           /\ remaining' = <<>>)]_vars

\* a load of "items" was applied while "characters" is selected, loaded, and has
\* a parse of its own in flight: the pool is empty until the effect runs
C5_Witness ==
    /\ lastOp.op = "handleLoad" /\ lastOp.key = "items"
    /\ selectedCategory = "characters"
    /\ Len(data["characters"]) = MaxRows
    /\ "characters" \in loading
    /\ remaining = <<>>
    /\ ~Settled

\* C6: after a load, a category switch or a reshuffle, once the effect has run,
\* the pool is the full index range of the selected table.
C6_PoolReset ==
    (Settled /\ lastOp.op \in {"handleLoad", "selectCategory", "reshuffle"})
        => remaining = IndexRange(minLen)

\* a switch to a table of one row, after a draw from another category
C6_Witness ==
    /\ Settled
    /\ lastOp.op = "selectCategory"
    /\ remaining = <<0>>
    /\ Len(drawn) > 0
    /\ drawn[1].category # selectedCategory

\* C7: a reshuffle and a category switch leave the history as it is, clearing
\* the history empties it and leaves the pool as it is, and switching
\* allowRepeats leaves both as they are; so does the effect that follows each.
C7_Frame ==
    [][/\ lastOp'.op \in {"reshuffle", "selectCategory"} => drawn' = drawn
       /\ lastOp'.op = "clearAllCards" => (drawn' = <<>> /\ remaining' = remaining)
       /\ lastOp'.op = "setAllowRepeats" => (drawn' = drawn /\ remaining' = remaining)]_vars

\* the history was cleared while the pool was partly drawn
C7_Witness ==
    /\ lastOp.op = "clearAllCards"
    /\ drawn = <<>>
    /\ Len(remaining) > 0
    /\ Len(remaining) < minLen

\* the sequence s without its entry at position i
RemoveAt(s, i) == SubSeq(s, 1, i - 1) \o SubSeq(s, i + 1, Len(s))

\* C8 (as stated): a dismiss removes exactly one entry, the one with the id, and
\* leaves the others in order; with no such entry the history stays as it is.
C8_DismissOne ==
    [][lastOp'.op = "dismiss"
       => IF \E i \in 1..Len(drawn) : drawn[i].id = lastOp'.id
          THEN \E i \in 1..Len(drawn) :
                  drawn[i].id = lastOp'.id /\ drawn' = RemoveAt(drawn, i)
          ELSE drawn' = drawn]_vars

\* C9 (as stated): the ids of the cards of the history are pairwise distinct.
C9_IdsDistinct ==
    \A i, j \in 1..Len(drawn) : i # j => drawn[i].id # drawn[j].id

\* C10: every card has a marker count, from 0 to 10; a new card has 0; addPip
\* adds 1 below 10 and leaves 10 as it is; clearPips sets 0.
C10_Markers ==
    /\ Len(pips) = Len(drawn)
    /\ \A i \in 1..Len(pips) : pips[i] \in 0..10
    /\ (lastOp.op = "drawOne" /\ lastOp.pos = 1) => pips[1] = 0
    /\ lastOp.op = "addPip"
        => pips[lastOp.pos] = IF lastOp.was < 10 THEN lastOp.was + 1 ELSE lastOp.was
    /\ lastOp.op = "clearPips" => pips[lastOp.pos] = 0

\* addPip on a card that has 10 markers
C10_Witness ==
    /\ lastOp.op = "addPip"
    /\ lastOp.was = 10
    /\ pips[lastOp.pos] = 10

\* ------------------------------------------------- bulk assignment (C11) ---
\* the categories whose name or singular form the file name contains, whatever
\* the case of its letters
NameMatches ==
    [name \in FileNames |->
        {c \in Categories :
            \E j \in 1..Len(CATEGORY_MATCHES[c]) :
                Includes(ToLowerCase(name), CATEGORY_MATCHES[c][j])}]

\* the place of a category in the order characters, items, locations, quests
OrderOf(c) == CHOOSE i \in 1..Len(CATEGORY_ORDER) : CATEGORY_ORDER[i] = c

\* the name contains the name or the singular form of c
ContainsName(name, c) == c \in NameMatches[name]

\* c is the first category, in order, whose name or singular form the name contains
FirstContained(name, c) ==
    /\ c \in NameMatches[name]
    /\ \A d \in NameMatches[name] : OrderOf(c) <= OrderOf(d)

\* What the bulk upload of the files (all parsed) must have done, when For(name, c)
\* says which category a name stands for: status is the report, tables the tables
\* after it and before the tables before it.
BulkRule(files, status, tables, before, For(_, _)) ==
    LET n == Len(files)
        named(i) == \E c \in Categories : For(files[i].name, c)
        taken == {c \in Categories : \E i \in 1..n : For(files[i].name, c)}
        \* the categories no named file stands for, in order
        free == SelectSeq(CATEGORY_ORDER, LAMBDA c : c \notin taken)
        \* file i is the rank(i)-th of the files of no category
        rank(i) == Cardinality({j \in 1..i : ~named(j)})
        default(i, c) == ~named(i) /\ rank(i) <= Len(free) /\ free[rank(i)] = c
        assignedTo(i, c) == For(files[i].name, c) \/ default(i, c)
        note(i, c) ==
            IF ~named(i) THEN " (default)"
            ELSE IF \E j \in 1..(i - 1) : For(files[j].name, c)
            THEN " (overrides previous)"
            ELSE ""
        reports == {status.assignments[e] : e \in 1..Len(status.assignments)}
        skips == {files[i].name : i \in {j \in 1..n : ~named(j) /\ rank(j) > Len(free)}}
    IN  /\ \A i \in 1..n, c \in Categories :
                assignedTo(i, c) => Assignment(files[i].name, c, note(i, c)) \in reports
        /\ Len(status.assignments)
                = Cardinality({ic \in (1..n) \X Categories : assignedTo(ic[1], ic[2])})
        /\ {status.skipped[e] : e \in 1..Len(status.skipped)} = skips
        /\ Len(status.skipped) = Cardinality(skips)
        /\ skips # {} => \A c \in Categories : \E i \in 1..n : assignedTo(i, c)
        /\ status.failures = <<>>
        /\ \A c \in Categories :
                LET on == {i \in 1..n : assignedTo(i, c)}
                IN  IF on = {} THEN tables[c] = before[c]
                    ELSE \E i \in on : /\ \A j \in on : j <= i
                                        /\ tables[c] = files[i].rows

\* the step that ends a bulk upload whose files all parsed
BulkOfParsedEnds ==
    /\ bulkLoading /\ ~bulkLoading'
    /\ \A i \in 1..Len(lastOp'.files) : lastOp'.files[i].ok

\* C11 (as stated): in a bulk upload of parsed files, a file whose name contains
\* the name or the singular form of a category is assigned to that category, a
\* later such file overriding the earlier and reported as an override; the files
\* of no category are assigned, in list order, to the categories still
\* unassigned, in the order characters, items, locations, quests, and reported
\* as "(default)"; a file is skipped only when all four categories have an
\* assignment; each category ends with the rows of at most one file.
C11_BulkAssigned ==
    [][BulkOfParsedEnds
       => BulkRule(lastOp'.files, bulkStatus', data', data, ContainsName)]_vars

\* C11 (amended): the same, where a file whose name contains the names of several
\* categories is assigned to the first of them only, in the order characters,
\* items, locations, quests.
C11_BulkAssignedFirst ==
    [][BulkOfParsedEnds
       => BulkRule(lastOp'.files, bulkStatus', data', data, FirstContained)]_vars

\* a bulk upload of parsed files has ended with a file named for two categories,
\* an override, a default assignment and a skipped file
C11_Witness ==
    /\ lastOp.op = "handleBulkUpload"
    /\ \A i \in 1..Len(lastOp.files) : lastOp.files[i].ok
    /\ \E i \in 1..Len(lastOp.files) : Cardinality(NameMatches[lastOp.files[i].name]) > 1
    /\ \E e \in 1..Len(bulkStatus.assignments) :
            bulkStatus.assignments[e].note = " (overrides previous)"
    /\ \E e \in 1..Len(bulkStatus.assignments) :
            bulkStatus.assignments[e].note = " (default)"
    /\ Len(bulkStatus.skipped) > 0

\* -------------------------------------------------- failed parses (C12) ---
\* the files that parsed, in the order of the list
ParsedOnly(files) == SelectSeq(files, LAMBDA file : file.ok)

\* the names of the files that failed to parse, in the order of the list
FailedNames(files) ==
    LET failed == SelectSeq(files, LAMBDA file : ~file.ok)
    IN  [i \in 1..Len(failed) |-> failed[i].name]

\* C12: the step that ends a failed parse of a FilePicker leaves the tables, the
\* pool and the history as they are; the step that ends a bulk upload reports
\* the files that failed, and assigns the others as it would were the failed
\* files not in the list (a failed file takes no category, named or default);
\* when every file failed, it leaves the tables, the pool, the history, the
\* markers, the selected category and allowRepeats as they are.
C12_FailedParse ==
    [][/\ (lastOp'.op = "parseError" /\ loading' # loading)
            => (data' = data /\ remaining' = remaining /\ drawn' = drawn)
       /\ (bulkLoading /\ ~bulkLoading')
            => /\ bulkStatus'.failures = FailedNames(lastOp'.files)
               /\ BulkRule(ParsedOnly(lastOp'.files),
                           [bulkStatus' EXCEPT !.failures = <<>>],
                           data', data, FirstContained)
               /\ ParsedOnly(lastOp'.files) = <<>>
                    => /\ data' = data
                       /\ remaining' = remaining
                       /\ drawn' = drawn
                       /\ pips' = pips
                       /\ selectedCategory' = selectedCategory
                       /\ allowRepeats' = allowRepeats]_vars

\* a bulk upload has ended in which a file of no category and a file named for a
\* category failed, and a later file of no category got the first category
C12_Witness ==
    /\ lastOp.op = "handleBulkUpload"
    /\ \E i, j, k \in 1..Len(lastOp.files) :
            /\ i < k
            /\ ~lastOp.files[i].ok /\ NameMatches[lastOp.files[i].name] = {}
            /\ ~lastOp.files[j].ok /\ NameMatches[lastOp.files[j].name] # {}
            /\ lastOp.files[k].ok
            /\ data["characters"] = lastOp.files[k].rows
            /\ \E e \in 1..Len(bulkStatus.assignments) :
                    bulkStatus.assignments[e]
                        = Assignment(lastOp.files[k].name, "characters", " (default)")
    /\ Len(bulkStatus.failures) = 2

\* a bulk upload in which every file failed has ended over a loaded table, a
\* card in the history and a pool partly drawn
C12_AllFailedOverState ==
    /\ lastOp.op = "handleBulkUpload"
    /\ Len(lastOp.files) > 0
    /\ \A i \in 1..Len(lastOp.files) : ~lastOp.files[i].ok
    /\ Len(drawn) > 0
    /\ Len(remaining) > 0 /\ Len(remaining) < minLen

\* ------------------------------------------- cards and their rows (C13) ---
\* the step of a drawOne that made a card: no other handler leaves lastOp so
\* from a settled state, but the dispatch of a parse and the clock
DrawSucceeds ==
    /\ Settled
    /\ lastOp'.op = "drawOne" /\ lastOp'.pos = 1
    /\ loading' = loading /\ bulkLoading' = bulkLoading /\ now' = now

\* C13: a draw that succeeds puts one card at the head of the history, of the
\* selected category, with an index of the selected table and the row at that
\* index, and with no marker, and leaves the cards before and their markers as
\* they were; and in every state every card of the history holds the row that
\* the table of its category has at its index.
C13_CardsHoldRows ==
    /\ [](\A i \in 1..Len(drawn) :
            /\ drawn[i].index + 1 \in 1..Len(data[drawn[i].category])
            /\ drawn[i].row = data[drawn[i].category][drawn[i].index + 1])
    /\ [][DrawSucceeds
           => /\ Len(drawn') = Len(drawn) + 1
              /\ Tail(drawn') = drawn
              /\ drawn'[1].category = selectedCategory
              /\ drawn'[1].index \in 0..(minLen - 1)
              /\ drawn'[1].row = data[selectedCategory][drawn'[1].index + 1]
              /\ Len(pips') = Len(pips) + 1
              /\ pips'[1] = 0
              /\ Tail(pips') = pips]_vars

\* a card was drawn from "items" onto a card of "characters" that has a marker,
\* the two tables holding different rows
C13_Witness ==
    /\ lastOp.op = "drawOne" /\ lastOp.pos = 1
    /\ Len(drawn) = 2
    /\ drawn[1].category = "items" /\ drawn[2].category = "characters"
    /\ selectedCategory = "items"
    /\ data["items"] # data["characters"]
    /\ pips = <<0, 1>>

=============================================================================
